---- MODULE Spec2Model ----
\* Carousel Studio slide renderer (src/main.py): SlideRenderer.get_font,
\* create_background, draw_photo_element, draw_text_element, render_slide,
\* and the /generate handler generate_carousel that calls render_slide.
EXTENDS Integers, Sequences, FiniteSets, TLC

VARIABLES
    font_cache,   \* SlideRenderer.font_cache: key -> font handle
    files,        \* font files present on disk (os.path.exists)
    tpc,          \* per worker: position inside get_font
    targ,         \* per worker: arguments of its get_font call
    tkey,         \* per worker: local variable key
    tfont,        \* per worker: font just loaded, not yet stored
    tret,         \* per worker: value returned by get_font
    loaded,       \* history: key -> handles ever loaded for it
    slide,        \* render_slide argument: background and elements
    pc,           \* position inside render_slide
    idx,          \* index of the next element of slide.elements
    canvas,       \* create_background: fill colour, resized size and crop box
    shade,        \* create_background: overlay alpha values
    layers,       \* what each drawn element put on the canvas
    args,         \* render_slide arguments besides the slide
    request,      \* generate_carousel argument (GenerateRequest)
    template,     \* the file templates/<name>.json, or its absence
    gpc,          \* position inside generate_carousel
    result_slides,\* generate_carousel: the slides to render
    total_slides, \* generate_carousel: the total handed to render_slide
    gidx,         \* generate_carousel: i of "for i, slide in enumerate(result_slides)"
    frames,       \* generate_carousel: images saved to temp_dir
    rendered,     \* generate_carousel: the list rendered
    response      \* what generate_carousel returned or raised

fontVars == <<font_cache, files, tpc, targ, tkey, tfont, tret, loaded>>
slideVars == <<slide, pc, idx, canvas, shade, layers, args>>
carouselVars == <<request, template, gpc, result_slides, total_slides, gidx,
                  frames, rendered, response>>
vars == <<font_cache, files, tpc, targ, tkey, tfont, tret, loaded,
          slide, pc, idx, canvas, shade, layers, args,
          request, template, gpc, result_slides, total_slides, gidx,
          frames, rendered, response>>

CANVAS_W == 1080
CANVAS_H == 1350

\* ---------------------------------------------------------------------
\* Python float (IEEE-754 binary64) arithmetic on non-negative values.
\* A float is [hi, lo, ex]: mantissa M = hi * 2^27 + lo with
\* 2^52 <= M < 2^53 (hi has 26 bits, lo has 27), value M * 2^ex.
\* Zero is [hi |-> 0, lo |-> 0, ex |-> 0].
\* ---------------------------------------------------------------------
L27 == 2 ^ 27
L26 == 2 ^ 26
L25 == 2 ^ 25
L14 == 2 ^ 14
L13 == 2 ^ 13

FZero == [hi |-> 0, lo |-> 0, ex |-> 0]

Pow2Tab == <<1, 2, 4, 8, 16, 32, 64, 128, 256, 512, 1024, 2048, 4096, 8192,
             16384, 32768, 65536, 131072, 262144, 524288, 1048576, 2097152,
             4194304, 8388608, 16777216, 33554432, 67108864, 134217728,
             268435456, 536870912, 1073741824>>
Pow2(n) == Pow2Tab[n + 1]

\* number of bits of 0 < n < 2^27
BitLen(n) == CHOOSE k \in 1..27 : Pow2(k - 1) <= n /\ n < Pow2(k)

Dbl2(h, l) == <<2 * h + ((2 * l) \div L27), (2 * l) % L27>>
Geq2(ah, al, bh, bl) == ah > bh \/ (ah = bh /\ al >= bl)
Sub2(ah, al, bh, bl) ==
    IF al >= bl THEN <<ah - bh, al - bl>> ELSE <<ah - bh - 1, al - bl + L27>>

\* the float of value (h * 2^27 + l) * 2^e, for h * 2^27 + l < 2^53 (exact)
NormUp(h, l, e) ==
    IF h = 0 /\ l = 0 THEN FZero
    ELSE IF h = 0
    THEN LET s == 53 - BitLen(l)
         IN IF s = 26
            THEN [hi |-> l \div 2, lo |-> (l % 2) * L26, ex |-> e - s]
            ELSE [hi |-> l * Pow2(s - 27), lo |-> 0, ex |-> e - s]
    ELSE LET s == 26 - BitLen(h)
         IN [hi |-> h * Pow2(s) + (l \div Pow2(27 - s)),
             lo |-> (l % Pow2(27 - s)) * Pow2(s), ex |-> e - s]

\* round-to-nearest-even: add one unit in the last place when up
RoundUp(h, l, e, up) ==
    IF ~up THEN [hi |-> h, lo |-> l, ex |-> e]
    ELSE IF l + 1 < L27 THEN [hi |-> h, lo |-> l + 1, ex |-> e]
    ELSE IF h + 1 < L26 THEN [hi |-> h + 1, lo |-> 0, ex |-> e]
    ELSE [hi |-> L25, lo |-> 0, ex |-> e + 1]

\* float(n) for an int 0 <= n < 2^31 (exact)
FromInt(n) == NormUp(n \div L27, n % L27, 0)

FGt(x, y) ==
    IF x.hi = 0 THEN FALSE
    ELSE IF y.hi = 0 THEN TRUE
    ELSE x.ex > y.ex \/ (x.ex = y.ex /\ (x.hi > y.hi \/ (x.hi = y.hi /\ x.lo > y.lo)))

\* n more quotient bits of r / d by restoring division (r < d on entry):
\* <<quotient bits, remainder hi, remainder lo>>
RECURSIVE DivBits(_, _, _, _, _, _)
DivBits(rh, rl, dh, dl, n, q) ==
    IF n = 0 THEN <<q, rh, rl>>
    ELSE LET r2h == 2 * rh + ((2 * rl) \div L27)
             r2l == (2 * rl) % L27
         IN IF r2h > dh \/ (r2h = dh /\ r2l >= dl)
            THEN IF r2l >= dl
                 THEN DivBits(r2h - dh, r2l - dl, dh, dl, n - 1, 2 * q + 1)
                 ELSE DivBits(r2h - dh - 1, r2l - dl + L27, dh, dl, n - 1, 2 * q + 1)
            ELSE DivBits(r2h, r2l, dh, dl, n - 1, 2 * q)

\* the 53 quotient bits 1, qs[1], .., qs[4] (13 bits each) rounded to nearest
\* even on r2, twice the last remainder
DivRound(qs, r2, y, e) ==
    RoundUp(L25 + qs[1] * 4096 + (qs[2] \div 2),
            (qs[2] % 2) * L26 + qs[3] * L13 + qs[4], e,
            (r2[1] > y.hi \/ (r2[1] = y.hi /\ r2[2] > y.lo))
                \/ (r2[1] = y.hi /\ r2[2] = y.lo /\ qs[4] % 2 = 1))

\* k more groups of 13 quotient bits after the groups qs, c being
\* <<last group, remainder hi, remainder lo>>
RECURSIVE DivGroups(_, _, _, _, _)
DivGroups(qs, c, y, e, k) ==
    IF k = 0 THEN DivRound(Append(qs, c[1]), Dbl2(c[2], c[3]), y, e)
    ELSE DivGroups(Append(qs, c[1]), DivBits(c[2], c[3], y.hi, y.lo, 13, 0), y, e, k - 1)

\* the quotient whose leading bit is 1 and whose first remainder is r0
DivFrom(r0, y, e) ==
    DivGroups(<<>>, DivBits(r0[1], r0[2], y.hi, y.lo, 13, 0), y, e, 3)

\* x / y, correctly rounded (y > 0): the leading quotient bit is 1, the
\* other 52 bits come in four groups of 13
FDiv(x, y) ==
    IF x.hi = 0 THEN FZero
    ELSE IF Geq2(x.hi, x.lo, y.hi, y.lo)
    THEN DivFrom(Sub2(x.hi, x.lo, y.hi, y.lo), y, x.ex - y.ex - 52)
    ELSE DivFrom(Sub2(2 * x.hi + ((2 * x.lo) \div L27), (2 * x.lo) % L27, y.hi, y.lo),
                 y, x.ex - y.ex - 53)

\* the mantissa as four limbs of 14 bits, lowest first
Limbs(x) ==
    <<x.lo % L14, (x.lo \div L14) + (x.hi % 2) * L13, (x.hi \div 2) % L14, x.hi \div 32768>>

\* the column sums of the schoolbook product of two mantissas
Columns(a, b) ==
    <<a[1] * b[1],
      a[1] * b[2] + a[2] * b[1],
      a[1] * b[3] + a[2] * b[2] + a[3] * b[1],
      a[1] * b[4] + a[2] * b[3] + a[3] * b[2] + a[4] * b[1],
      a[2] * b[4] + a[3] * b[3] + a[4] * b[2],
      a[3] * b[4] + a[4] * b[3],
      a[4] * b[4]>>

\* the limbs of 14 bits of a number given by its column sums; the carry out
\* of the last column is the last limb
RECURSIVE Carry(_, _)
Carry(cols, c) ==
    IF cols = <<>> THEN <<c>>
    ELSE <<(Head(cols) + c) % L14>> \o Carry(Tail(cols), (Head(cols) + c) \div L14)

\* a product of 106 bits in limbs u[1..8]: its top 53 bits, rounded to
\* nearest even on the bits below them
MulRound(u, e) ==
    RoundUp((u[6] \div 1024) + u[7] * 16 + u[8] * 262144,
            (u[4] \div 2048) + u[5] * 8 + (u[6] % 1024) * 131072, e,
            (u[4] \div 1024) % 2 = 1
                /\ ((u[4] % 1024) # 0 \/ u[3] # 0 \/ u[2] # 0 \/ u[1] # 0
                    \/ (u[4] \div 2048) % 2 = 1))

\* the product t is below 2^105 exactly when its limb t[8] is below 2^7:
\* double it then, so that it always has 106 bits
MulScaled(t, e) ==
    IF t[8] >= 128 THEN MulRound(t, e)
    ELSE MulRound(Carry(<<2 * t[1], 2 * t[2], 2 * t[3], 2 * t[4],
                          2 * t[5], 2 * t[6], 2 * t[7], 2 * t[8]>>, 0), e - 1)

\* x * y, correctly rounded: schoolbook product on 14-bit limbs
FMul(x, y) ==
    IF x.hi = 0 \/ y.hi = 0 THEN FZero
    ELSE MulScaled(Carry(Columns(Limbs(x), Limbs(y)), 0), x.ex + y.ex + 53)

\* x - y for x >= y > 0 whose exponents differ by at most one
FSub(x, y) ==
    IF x.ex = y.ex
    THEN LET d == Sub2(x.hi, x.lo, y.hi, y.lo) IN NormUp(d[1], d[2], y.ex)
    ELSE IF x.ex = y.ex + 1
    THEN LET x2 == Dbl2(x.hi, x.lo)
             d  == Sub2(x2[1], x2[2], y.hi, y.lo)
         IN IF d[1] >= L26
            THEN LET mh == d[1] \div 2
                     ml == (d[2] \div 2) + (d[1] % 2) * L26
                 IN RoundUp(mh, ml, y.ex + 1, d[2] % 2 = 1 /\ ml % 2 = 1)
            ELSE NormUp(d[1], d[2], y.ex)
    ELSE CHOOSE f \in {} : TRUE

\* int(x): truncation of a float below 2^31
FTrunc(x) ==
    IF x.hi = 0 \/ x.ex <= -53 THEN 0
    ELSE IF x.ex <= -27 THEN x.hi \div Pow2(-27 - x.ex)
    ELSE x.hi * Pow2(27 + x.ex) + (x.lo \div Pow2(-x.ex))


\* ---------------------------------------------------------------------
\* SlideRenderer.get_font (src/main.py:67-97)
\* ---------------------------------------------------------------------
Workers == {"w1", "w2"}
Families == {"Inter", "Roboto"}
Weights == {"400", "700"}
FontSize == 48

NoPath == <<>>
DejaVuBold == <<"/usr/share/fonts/truetype/dejavu/DejaVuSans-Bold.ttf">>
DejaVu == <<"/usr/share/fonts/truetype/dejavu/DejaVuSans.ttf">>
DefaultFont == [path |-> <<"load_default">>, size |-> 0]
NoFont == [path |-> NoPath, size |-> 0]
KeyError == [path |-> <<"KeyError">>, size |-> 0]

\* the states of the fonts directory and of the system fonts considered
FileScenarios ==
    { [present |-> {}, corrupt |-> {}],
      [present |-> {DejaVuBold, DejaVu}, corrupt |-> {}],
      [present |-> {<<"fonts", "Inter", "otf">>, DejaVuBold, DejaVu}, corrupt |-> {}],
      [present |-> {<<"fonts", "Inter-Bold", "ttf">>, <<"fonts", "Roboto", "otf">>, DejaVu},
       corrupt |-> {<<"fonts", "Roboto", "otf">>}] }

weight_map(weight) ==
    CASE weight = "300" -> "Light"
      [] weight = "400" -> "Regular"
      [] weight = "500" -> "Medium"
      [] weight = "600" -> "SemiBold"
      [] weight = "700" -> "Bold"
      [] weight = "800" -> "ExtraBold"
      [] weight = "900" -> "Black"
      [] OTHER -> "Regular"

InterName(weight_name) ==
    CASE weight_name = "Light" -> "Inter-Light"
      [] weight_name = "Medium" -> "Inter-Medium"
      [] weight_name = "SemiBold" -> "Inter-SemiBold"
      [] weight_name = "Bold" -> "Inter-Bold"
      [] weight_name = "ExtraBold" -> "Inter-ExtraBold"
      [] weight_name = "Black" -> "Inter-Black"
      [] OTHER -> "Inter-Regular"

font_name(family, weight) ==
    IF family = "Inter" /\ weight_map(weight) # "Regular"
    THEN InterName(weight_map(weight)) ELSE family

\* key = f"{font_name}_{size}"; size is an int, so the string determines
\* the pair and the pair stands for the string
FontKey(family, size, weight) == <<font_name(family, weight), size>>

FontPaths(family, weight) ==
    << <<"fonts", font_name(family, weight), "otf">>,
       <<"fonts", font_name(family, weight), "ttf">>,
       <<"fonts", "Inter", "otf">>,
       <<"fonts", "Inter-Regular", "otf">>,
       IF weight_map(weight) \in {"Bold", "ExtraBold", "Black", "SemiBold"}
       THEN DejaVuBold ELSE NoPath,
       DejaVu >>

\* path and os.path.exists(path), and ImageFont.truetype(path, size) does not
\* raise: it raises on a corrupt file and on a size that is not positive
Loadable(path, fs, size) ==
    path # NoPath /\ path \in fs.present /\ path \notin fs.corrupt /\ size > 0

\* the for loop over paths: the first font that loads, NoFont if none does
LoadFont(family, size, weight, fs) ==
    LET paths == FontPaths(family, weight)
        ok == {i \in 1..Len(paths) : Loadable(paths[i], fs, size)}
    IN IF ok = {} THEN NoFont
       ELSE [path |-> paths[CHOOSE i \in ok : \A j \in ok : i <= j], size |-> size]

\* the cache rebuilt around the new entry alone
StoreFontOnly(cache, key, font) == [k \in {key} |-> font]

\* self.font_cache[key] = font
StoreFont(cache, key, font) ==
    [k \in DOMAIN cache \cup {key} |-> IF k = key THEN font ELSE cache[k]]

Remember(hist, key, font) ==
    [k \in DOMAIN hist \cup {key} |->
        IF k = key THEN (IF k \in DOMAIN hist THEN hist[k] ELSE {}) \cup {font}
        ELSE hist[k]]

\* the whole of get_font run without interruption: <<cache after, font>>
GetFont(cache, fs, family, size, weight) ==
    LET key == FontKey(family, size, weight)
        f == LoadFont(family, size, weight, fs)
        c1 == IF key \in DOMAIN cache THEN cache
              ELSE StoreFont(cache, key, IF f = NoFont THEN DefaultFont ELSE f)
    IN <<c1, c1[key]>>

\* what get_font returns on a renderer that has loaded nothing yet
FreshFont(fs, family, size, weight) ==
    GetFont(<<>>, fs, family, size, weight)[2]

\* line 73-77: compute the key, test the cache
GetFontCall(w) ==
    /\ tpc[w] \in {"idle", "done"}
    /\ \E family \in Families, weight \in Weights :
         LET key == FontKey(family, FontSize, weight)
         IN /\ targ' = [targ EXCEPT ![w] = [family |-> family, size |-> FontSize, weight |-> weight]]
            /\ tkey' = [tkey EXCEPT ![w] = key]
            /\ tpc' = [tpc EXCEPT ![w] = IF key \in DOMAIN font_cache THEN "ret" ELSE "load"]
    /\ tfont' = [tfont EXCEPT ![w] = NoFont]
    /\ UNCHANGED <<font_cache, files, tret, loaded>>

\* lines 78-89: walk the paths, ImageFont.truetype on the first that loads
GetFontLoad(w) ==
    /\ tpc[w] = "load"
    /\ LET f == LoadFont(targ[w].family, targ[w].size, targ[w].weight, files)
       IN /\ tfont' = [tfont EXCEPT ![w] = f]
          /\ tpc' = [tpc EXCEPT ![w] = IF f = NoFont THEN "check" ELSE "store"]
          /\ loaded' = IF f = NoFont THEN loaded ELSE Remember(loaded, tkey[w], f)
    /\ UNCHANGED <<font_cache, files, targ, tkey, tret>>

\* line 89: self.font_cache[key] = <loaded font>; break
GetFontStore(w) ==
    /\ tpc[w] = "store"
    /\ font_cache' = StoreFont(font_cache, tkey[w], tfont[w])
    /\ tpc' = [tpc EXCEPT ![w] = "check"]
    /\ UNCHANGED <<files, targ, tkey, tfont, tret, loaded>>

\* lines 94-95: fall back to ImageFont.load_default()
GetFontCheck(w) ==
    /\ tpc[w] = "check"
    /\ IF tkey[w] \notin DOMAIN font_cache
       THEN /\ font_cache' = StoreFont(font_cache, tkey[w], DefaultFont)
            /\ loaded' = Remember(loaded, tkey[w], DefaultFont)
       ELSE UNCHANGED <<font_cache, loaded>>
    /\ tpc' = [tpc EXCEPT ![w] = "ret"]
    /\ UNCHANGED <<files, targ, tkey, tfont, tret>>

\* line 97: return self.font_cache[key]
GetFontReturn(w) ==
    /\ tpc[w] = "ret"
    /\ tret' = [tret EXCEPT ![w] = IF tkey[w] \in DOMAIN font_cache
                                   THEN font_cache[tkey[w]] ELSE KeyError]
    /\ tpc' = [tpc EXCEPT ![w] = "done"]
    /\ UNCHANGED <<font_cache, files, targ, tkey, tfont, loaded>>

\* ---------------------------------------------------------------------
\* JSON values of a slide description and their Python conversions
\* ---------------------------------------------------------------------
Absent == [k |-> "absent", n |-> 0, d |-> 1]      \* key not in the dict
Null == [k |-> "null", n |-> 0, d |-> 1]          \* None
Str == [k |-> "str", n |-> 0, d |-> 1]            \* a non-numeric string
Num(n) == [k |-> "num", n |-> n, d |-> 1]         \* an int
Frac(n, d) == [k |-> "num", n |-> n, d |-> d]     \* the float n / d

\* dict.get(key, default)
Get(raw, default) == IF raw.k = "absent" THEN default ELSE raw
\* dict.get(key): None when the key is missing
GetNone(raw) == IF raw.k = "absent" THEN Null ELSE raw
\* truth value of a Python object
Truthy(raw) == raw.k \in {"str", "hex", "image"} \/ (raw.k = "num" /\ raw.n # 0)
\* int(v), float(v), v > 0, max(1, v), arithmetic on v raise unless v is a number
IsNumber(raw) == raw.k = "num"

\* load_image (lines 99-113): the decoded image, or None; it never raises
NoImage == [k |-> "null", width |-> 0, height |-> 0]
Image(w, h) == [k |-> "image", width |-> w, height |-> h]
load_image(source) == IF source.k = "image" THEN source ELSE NoImage

\* ---------------------------------------------------------------------
\* draw_text_element: highlight segmentation (lines 253-266)
\* ---------------------------------------------------------------------
Plain(t) == [text |-> t, hl |-> FALSE]
Hl(t) == [text |-> t, hl |-> TRUE]

\* the pattern \*([^*]*)\*, which also matches an empty pair
MatchEndEmpty(content, j) ==
    IF content[j] = "*"
    THEN LET stars == {k \in (j + 1)..Len(content) : content[k] = "*"}
         IN IF stars = {} THEN 0 ELSE CHOOSE k \in stars : \A m \in stars : k <= m
    ELSE 0

\* re.match of \*([^*]+)\* at position j: index of the closing *, else 0
MatchEnd(content, j) ==
    IF content[j] = "*" /\ j + 1 <= Len(content) /\ content[j + 1] # "*"
    THEN LET stars == {k \in (j + 2)..Len(content) : content[k] = "*"}
         IN IF stars = {} THEN 0 ELSE CHOOSE k \in stars : \A m \in stars : k <= m
    ELSE 0

\* start of the leftmost match at or after from, else 0
FirstMatch(content, from) ==
    LET starts == {j \in from..Len(content) : MatchEnd(content, j) # 0}
    IN IF starts = {} THEN 0 ELSE CHOOSE j \in starts : \A m \in starts : j <= m

\* the finditer loop from last_end = from - 1, and the tail after it
RECURSIVE SegmentsFrom(_, _)
SegmentsFrom(content, from) ==
    LET j == FirstMatch(content, from)
    IN IF j = 0
       THEN IF from <= Len(content)
            THEN <<Plain(SubSeq(content, from, Len(content)))>> ELSE <<>>
       ELSE (IF j > from THEN <<Plain(SubSeq(content, from, j - 1))>> ELSE <<>>)
            \o <<Hl(SubSeq(content, j + 1, MatchEnd(content, j) - 1))>>
            \o SegmentsFrom(content, MatchEnd(content, j) + 1)

ParseSegments(content) ==
    IF SegmentsFrom(content, 1) = <<>> THEN <<Plain(content)>>
    ELSE SegmentsFrom(content, 1)

\* ---------------------------------------------------------------------
\* draw_text_element: word wrap (lines 268-290)
\* ---------------------------------------------------------------------
\* str.split(sep)
RECURSIVE Split(_, _)
Split(str, sep) ==
    LET at == {i \in 1..Len(str) : str[i] = sep}
    IN IF at = {} THEN <<str>>
       ELSE LET i == CHOOSE i \in at : \A m \in at : i <= m
            IN <<SubSeq(str, 1, i - 1)>> \o Split(SubSeq(str, i + 1, Len(str)), sep)

\* ' '.join(words)
RECURSIVE Join(_)
Join(words) ==
    IF words = <<>> THEN <<>>
    ELSE IF Len(words) = 1 THEN words[1]
    ELSE words[1] \o <<" ">> \o Join(Tail(words))

\* advance width of one glyph of the resolved font
CharWidth(c) == IF c = "a" THEN 2 ELSE 1

\* draw.textbbox((0, 0), text, font=font): bbox[2] - bbox[0]
RECURSIVE TextWidth(_)
TextWidth(text) ==
    IF text = <<>> THEN 0 ELSE CharWidth(Head(text)) + TextWidth(Tail(text))

\* the new word measured alone instead of the line with the word added
OverflowsWordAlone(current_words, word, max_width) ==
    /\ Truthy(max_width)
    /\ TextWidth(word) > max_width.n
    /\ current_words # <<>>

\* line 281: max_width and bbox[2] - bbox[0] > max_width and current_words
Overflows(current_words, word, max_width) ==
    /\ Truthy(max_width)
    /\ TextWidth(Join(Append(current_words, word))) > max_width.n
    /\ current_words # <<>>

\* lines 279-288 for one non-empty word
WrapWord(st, word, hl, max_width) ==
    IF Overflows(st.current_words, word, max_width)
    THEN [lines |-> Append(st.lines, st.current_segs),
          current_words |-> <<word>>,
          current_segs |-> <<[text |-> word, hl |-> hl]>>]
    ELSE [lines |-> st.lines,
          current_words |-> Append(st.current_words, word),
          current_segs |->
              (IF st.current_words # <<>>
               THEN Append(st.current_segs, Plain(<<" ">>)) ELSE st.current_segs)
              \o <<[text |-> word, hl |-> hl]>>]

\* for word in part.split(' '), skipping empty words
RECURSIVE WrapWords(_, _, _, _)
WrapWords(st, words, hl, max_width) ==
    IF words = <<>> THEN st
    ELSE IF Head(words) = <<>> THEN WrapWords(st, Tail(words), hl, max_width)
    ELSE WrapWords(WrapWord(st, Head(words), hl, max_width), Tail(words), hl, max_width)

\* a line break that drops the current line when it is empty, as line 289
\* does for the last line
BreakLineNonEmpty(st) ==
    [lines |-> IF st.current_segs = <<>> THEN st.lines ELSE Append(st.lines, st.current_segs),
     current_words |-> <<>>, current_segs |-> <<>>]

\* lines 273-275: a part after a newline first ends the current line
BreakLine(st) ==
    [lines |-> Append(st.lines, st.current_segs),
     current_words |-> <<>>, current_segs |-> <<>>]

\* for pi, part in enumerate(seg['text'].split('\n')), from part number pi
RECURSIVE WrapParts(_, _, _, _, _)
WrapParts(st, parts, pi, hl, max_width) ==
    IF parts = <<>> THEN st
    ELSE WrapParts(WrapWords(IF pi > 0 THEN BreakLine(st) ELSE st,
                             Split(Head(parts), " "), hl, max_width),
                   Tail(parts), pi + 1, hl, max_width)

\* for seg in segments
RECURSIVE WrapSegments(_, _, _)
WrapSegments(st, segments, max_width) ==
    IF segments = <<>> THEN st
    ELSE WrapSegments(WrapParts(st, Split(Head(segments).text, "\n"), 0,
                                Head(segments).hl, max_width),
                      Tail(segments), max_width)

WrapStart == [lines |-> <<>>, current_words |-> <<>>, current_segs |-> <<>>]

\* lines 269-290: the emitted lines, each a list of runs
WordWrap(segments, max_width) ==
    LET st == WrapSegments(WrapStart, segments, max_width)
    IN IF st.current_segs # <<>> THEN Append(st.lines, st.current_segs) ELSE st.lines

\* ---------------------------------------------------------------------
\* create_background (lines 115-167)
\* ---------------------------------------------------------------------
Dict(x, y) == [k |-> "dict", n |-> 0, d |-> 1, x |-> x, y |-> y]
Hex(r, g, b) == [k |-> "hex", n |-> 0, d |-> 1, rgb |-> <<r, g, b>>]

\* the float a JSON number denotes
FloatOf(raw) == FDiv(FromInt(raw.n), FromInt(raw.d))

\* int(n / d) for ints n and d > 0: true division, then truncation
TruncDiv(n, d) ==
    IF n >= 0 THEN FTrunc(FDiv(FromInt(n), FromInt(d)))
    ELSE 0 - FTrunc(FDiv(FromInt(0 - n), FromInt(d)))

\* lines 117-121: a hex string parses, anything else falls back to white
BackgroundColor(raw) ==
    IF Get(raw, Hex(255, 255, 255)).k = "hex"
    THEN Get(raw, Hex(255, 255, 255)).rgb ELSE <<255, 255, 255>>

\* lines 135-138 and 194-199: the side that is kept and the side that is scaled
CoverFitBy(img_ratio, target_ratio, tw, th) ==
    IF FGt(img_ratio, target_ratio)
    THEN [width |-> FTrunc(FMul(FromInt(th), img_ratio)), height |-> th]
    ELSE [width |-> tw, height |-> FTrunc(FDiv(FromInt(tw), img_ratio))]

\* lines 132-138 and 191-199: the size that covers tw x th, before zoom
CoverFit(iw, ih, tw, th) ==
    CoverFitBy(FDiv(FromInt(iw), FromInt(ih)), FDiv(FromInt(tw), FromInt(th)), tw, th)

\* line 130 and 140: zoom = max(1, photoZoom); int(base * zoom)
Zoomed(base, zoom) ==
    IF zoom.n > zoom.d THEN FTrunc(FMul(FromInt(base), FloatOf(zoom))) ELSE base

\* the offset taken from the resized size, not from what exceeds the canvas
CropOffsetOfSize(resized, target, pos) == TruncDiv(resized * pos, 100)

\* lines 143-144: int(max(0, resized - canvas) * pos / 100)
CropOffset(resized, target, pos) ==
    TruncDiv((IF resized - target > 0 THEN resized - target ELSE 0) * pos, 100)

\* the literals 0.4 and 0.6
F04 == FDiv(FromInt(2), FromInt(5))
F06 == FDiv(FromInt(3), FromInt(5))

\* line 159: the rows y of range(CANVAS_H) with y / CANVAS_H > 0.4
GradientRows ==
    {y \in 0..(CANVAS_H - 1) : FGt(FDiv(FromInt(y), FromInt(CANVAS_H)), F04)}

\* line 160: (y / CANVAS_H - 0.4) / 0.6
GradientFactor ==
    [y \in GradientRows |->
        FDiv(FSub(FDiv(FromInt(y), FromInt(CANVAS_H)), F04), F06)]

\* the gradient upside down: darkest at row 0.4 * H, clear at the bottom
GradientAlphaFalling(overlay, y) ==
    TruncDiv(255 * overlay, 100)
        - FTrunc(FMul(FDiv(FromInt(255 * overlay), FromInt(100)), GradientFactor[y]))

\* line 160: alpha = int(255 * overlay / 100 * ((y / CANVAS_H - 0.4) / 0.6))
GradientAlpha(overlay, y) ==
    FTrunc(FMul(FDiv(FromInt(255 * overlay), FromInt(100)), GradientFactor[y]))

\* line 164: int(255 * overlay / 100)
FullAlpha(overlay) == TruncDiv(255 * overlay, 100)

\* lines 152-165: the alpha of the black layer, per row of the canvas
Overlay(bg) ==
    LET overlay == Get(bg.overlay, Num(0)).n
    IN IF overlay > 0
       THEN IF bg.overlayType = "gradient"
            THEN [kind |-> "gradient", alpha |-> 0,
                  rows |-> [y \in 0..(CANVAS_H - 1) |->
                              IF y \in GradientRows THEN GradientAlpha(overlay, y) ELSE 0]]
            ELSE [kind |-> "full", alpha |-> FullAlpha(overlay), rows |-> <<>>]
       ELSE [kind |-> "none", alpha |-> 0, rows |-> <<>>]

HasPhoto(bg) ==
    bg.type = "photo" /\ Truthy(bg.photo) /\ load_image(bg.photo) # NoImage

\* the statements of create_background that raise on a malformed field
BackgroundRaises(bg) ==
    \/ /\ HasPhoto(bg)
       /\ \/ ~IsNumber(Get(bg.photoZoom, Num(1)))
          \/ Get(bg.photoPosition, Dict(Num(50), Num(50))).k # "dict"
          \/ ~IsNumber(Get(Get(bg.photoPosition, Dict(Num(50), Num(50))).x, Num(50)))
          \/ ~IsNumber(Get(Get(bg.photoPosition, Dict(Num(50), Num(50))).y, Num(50)))
    \/ ~IsNumber(Get(bg.overlay, Num(0)))

\* the box (left, upper, right, lower) of a crop of w x h
CropBox(left, top, w, h) == <<left, top, left + w, top + h>>

\* lines 143-145: pan and crop the resized photo
PhotoCropped(bg, new_width, new_height, pos) ==
    [fill |-> BackgroundColor(bg.color), fitted |-> TRUE,
     new_width |-> new_width, new_height |-> new_height,
     crop |-> CropBox(CropOffset(new_width, CANVAS_W, Get(pos.x, Num(50)).n),
                      CropOffset(new_height, CANVAS_H, Get(pos.y, Num(50)).n),
                      CANVAS_W, CANVAS_H)]

\* lines 129-141: zoom the cover-fit size
PhotoResized(bg, base) ==
    PhotoCropped(bg, Zoomed(base.width, Get(bg.photoZoom, Num(1))),
                 Zoomed(base.height, Get(bg.photoZoom, Num(1))),
                 Get(bg.photoPosition, Dict(Num(50), Num(50))))

\* lines 127-149: resize, pan and crop the photo
PhotoCanvas(bg) ==
    PhotoResized(bg, CoverFit(load_image(bg.photo).width, load_image(bg.photo).height,
                              CANVAS_W, CANVAS_H))

FlatCanvas(bg) ==
    [fill |-> BackgroundColor(bg.color), fitted |-> FALSE,
     new_width |-> CANVAS_W, new_height |-> CANVAS_H,
     crop |-> <<0, 0, CANVAS_W, CANVAS_H>>]

\* line 314: canvas = self.create_background(slide.get('background', {}))
CreateBackground ==
    /\ pc = "start"
    /\ IF BackgroundRaises(slide.background)
       THEN /\ pc' = "raised"
            /\ UNCHANGED <<canvas, shade>>
       ELSE /\ canvas' = IF HasPhoto(slide.background)
                         THEN PhotoCanvas(slide.background)
                         ELSE FlatCanvas(slide.background)
            /\ shade' = Overlay(slide.background)
            /\ pc' = "elements"
    /\ idx' = 1
    /\ UNCHANGED <<slide, layers, args>>
    /\ UNCHANGED fontVars
    /\ UNCHANGED carouselVars

\* ---------------------------------------------------------------------
\* draw_photo_element (lines 178-219)
\* ---------------------------------------------------------------------
\* int(v) of a JSON number
PyInt(raw) == TruncDiv(raw.n, raw.d)

PhotoLoads(el) == Truthy(el.photo) /\ load_image(el.photo) # NoImage

\* the statements of draw_photo_element that raise
PhotoRaises(el) ==
    /\ PhotoLoads(el)
    /\ \/ ~IsNumber(Get(el.x, Num(0)))
       \/ ~IsNumber(Get(el.y, Num(0)))
       \/ ~IsNumber(Get(el.width, Num(300)))
       \/ ~IsNumber(Get(el.height, Num(300)))
       \/ PyInt(Get(el.height, Num(300))) = 0
       \/ ~IsNumber(Get(el.borderRadius, Num(0)))

\* lines 201-219: resize, centred crop, rounded mask, paste at (x, y)
PhotoFitted(el, w, h, new) ==
    [kind |-> "photo",
     x |-> PyInt(Get(el.x, Num(0))), y |-> PyInt(Get(el.y, Num(0))),
     w |-> w, h |-> h, new_w |-> new.width, new_h |-> new.height,
     crop |-> CropBox((new.width - w) \div 2, (new.height - h) \div 2, w, h),
     radius |-> IF Get(el.borderRadius, Num(0)).n > 0
                THEN TruncDiv((IF w < h THEN w ELSE h) * Get(el.borderRadius, Num(0)).n, 100)
                ELSE 0]

\* lines 191-199: cover-fit the image into the box
PhotoBoxed(el, img, w, h) == PhotoFitted(el, w, h, CoverFit(img.width, img.height, w, h))

\* lines 183-219: what a loaded photo puts on the canvas
PhotoLayer(el) ==
    PhotoBoxed(el, load_image(el.photo),
               PyInt(Get(el.width, Num(300))), PyInt(Get(el.height, Num(300))))

Skipped == [kind |-> "skipped"]

\* line 318: self.draw_photo_element(canvas, el)
DrawPhotoElement ==
    /\ pc = "elements"
    /\ idx <= Len(slide.elements)
    /\ slide.elements[idx].type = "photo"
    /\ IF PhotoRaises(slide.elements[idx])
       THEN pc' = "raised" /\ UNCHANGED <<layers, idx>>
       ELSE /\ layers' = Append(layers, IF PhotoLoads(slide.elements[idx])
                                        THEN PhotoLayer(slide.elements[idx]) ELSE Skipped)
            /\ idx' = idx + 1
            /\ pc' = pc
    /\ UNCHANGED <<slide, canvas, shade, args>>
    /\ UNCHANGED fontVars
    /\ UNCHANGED carouselVars

\* ---------------------------------------------------------------------
\* draw_text_element (lines 221-311)
\* ---------------------------------------------------------------------
\* str(n) for an int n >= 0
RECURSIVE DigitsOf(_)
DigitsOf(n) ==
    LET digit == <<"0", "1", "2", "3", "4", "5", "6", "7", "8", "9">>[(n % 10) + 1]
    IN IF n < 10 THEN <<digit>> ELSE Append(DigitsOf(n \div 10), digit)

\* lines 224 and 238-242
TextContent(el, a) ==
    IF el.type = "username"
    THEN (IF a.username_override # <<>> THEN a.username_override ELSE a.username)
    ELSE IF el.type = "slidenum"
    THEN DigitsOf(a.slide_num) \o <<"/">> \o DigitsOf(a.total_slides)
    ELSE el.content

\* line 234: int(el.get('maxWidth')) if el.get('maxWidth') else None
MaxWidth(el) ==
    IF Truthy(GetNone(el.maxWidth)) THEN Num(PyInt(GetNone(el.maxWidth))) ELSE Null

\* parse_color (lines 169-176): a non-string value has no lstrip
ColorRaises(raw) == raw.k = "num" /\ raw.n # 0
parse_color(raw) == IF raw.k = "hex" THEN raw.rgb ELSE <<0, 0, 0>>

\* lines 249-251: int(c * opacity) when opacity < 1
Faded(rgb, opacity) ==
    IF opacity.n < 100 * opacity.d
    THEN [i \in 1..3 |-> FTrunc(FMul(FromInt(rgb[i]), FDiv(FloatOf(opacity), FromInt(100))))]
    ELSE rgb

\* the conversions of lines 226-234 that raise
TextRaises(el) ==
    \/ ~IsNumber(Get(el.x, Num(0)))
    \/ ~IsNumber(Get(el.y, Num(0)))
    \/ ~IsNumber(Get(el.fontSize, Num(48)))
    \/ ~IsNumber(Get(el.opacity, Num(100)))
    \/ ~IsNumber(Get(el.lineHeight, Frac(12, 10)))
    \/ (Truthy(GetNone(el.maxWidth)) /\ ~IsNumber(GetNone(el.maxWidth)))

\* lines 246-247, after get_font has run
ColorsRaise(el) ==
    \/ ColorRaises(Get(el.color, Hex(0, 0, 0)))
    \/ ColorRaises(Get(el.highlightColor, Hex(200, 255, 0)))

\* ''.join(s['text'] for s in line_segs)
RECURSIVE LineText(_)
LineText(line_segs) ==
    IF line_segs = <<>> THEN <<>> ELSE Head(line_segs).text \o LineText(Tail(line_segs))

\* lines 305-309: each run at the x reached so far
RECURSIVE PaintRuns(_, _, _)
PaintRuns(line_segs, curr_x, curr_y) ==
    IF line_segs = <<>> THEN <<>>
    ELSE <<[x |-> curr_x, y |-> curr_y, text |-> Head(line_segs).text, hl |-> Head(line_segs).hl]>>
         \o PaintRuns(Tail(line_segs), curr_x + TextWidth(Head(line_segs).text), curr_y)

\* line 303
LineStart(x, line_w, align) ==
    IF align = "right" THEN x - line_w
    ELSE IF align = "center" THEN x - (line_w \div 2) ELSE x

\* lines 293-311: one entry per line, the runs painted on it
RECURSIVE PaintLines(_, _, _, _, _)
PaintLines(lines, x, curr_y, step, align) ==
    IF lines = <<>> THEN <<>>
    ELSE <<PaintRuns(Head(lines), LineStart(x, TextWidth(LineText(Head(lines))), align), curr_y)>>
         \o PaintLines(Tail(lines), x, curr_y + step, step, align)

\* lines 292-311: paint the wrapped lines
TextPainted(el, content, font, segments, lines) ==
    [kind |-> "text", content |-> content, font |-> font,
     max_width |-> MaxWidth(el),
     base_color |-> Faded(parse_color(Get(el.color, Hex(0, 0, 0))), Get(el.opacity, Num(100))),
     hl_color |-> Faded(parse_color(Get(el.highlightColor, Hex(200, 255, 0))), Get(el.opacity, Num(100))),
     segments |-> segments, lines |-> lines,
     painted |-> PaintLines(lines, PyInt(Get(el.x, Num(0))), PyInt(Get(el.y, Num(0))),
                            FTrunc(FMul(FromInt(PyInt(Get(el.fontSize, Num(48)))),
                                        FloatOf(Get(el.lineHeight, Frac(12, 10))))),
                            el.align)]

\* lines 268-290: wrap the segments
TextWrapped(el, content, font, segments) ==
    TextPainted(el, content, font, segments, WordWrap(segments, MaxWidth(el)))

\* lines 238-311: what the element puts on the canvas
TextLayer(el, a, font) ==
    TextWrapped(el, TextContent(el, a), font, ParseSegments(TextContent(el, a)))

\* line 320: self.draw_text_element(canvas, el, settings, slide_num, ...)
DrawTextElement ==
    /\ pc = "elements"
    /\ idx <= Len(slide.elements)
    /\ slide.elements[idx].type # "photo"
    /\ IF TextRaises(slide.elements[idx])
       THEN pc' = "raised" /\ UNCHANGED <<layers, idx, font_cache>>
       ELSE LET el == slide.elements[idx]
                got == GetFont(font_cache, files, el.fontFamily,
                               PyInt(Get(el.fontSize, Num(48))), el.fontWeight)
            IN /\ font_cache' = got[1]
               /\ IF ColorsRaise(el)
                  THEN pc' = "raised" /\ UNCHANGED <<layers, idx>>
                  ELSE /\ layers' = Append(layers, TextLayer(el, args, got[2]))
                       /\ idx' = idx + 1
                       /\ pc' = pc
    /\ UNCHANGED <<slide, canvas, shade, args>>
    /\ UNCHANGED <<files, tpc, targ, tkey, tfont, tret, loaded>>
    /\ UNCHANGED carouselVars

\* line 322: return canvas
ReturnCanvas ==
    /\ pc = "elements"
    /\ idx > Len(slide.elements)
    /\ pc' = "done"
    /\ UNCHANGED <<slide, idx, canvas, shade, layers, args>>
    /\ UNCHANGED fontVars
    /\ UNCHANGED carouselVars

NoCall == [family |-> "", size |-> 0, weight |-> ""]

InitFontIdle ==
    /\ font_cache = <<>>
    /\ tpc = [w \in Workers |-> "idle"]
    /\ targ = [w \in Workers |-> NoCall]
    /\ tkey = [w \in Workers |-> <<"", 0>>]
    /\ tfont = [w \in Workers |-> NoFont]
    /\ tret = [w \in Workers |-> NoFont]
    /\ loaded = <<>>

\* no /generate request in progress
InitCarouselIdle ==
    /\ request = <<>>
    /\ template = <<>>
    /\ gpc = "idle"
    /\ result_slides = <<>>
    /\ total_slides = 0
    /\ gidx = 0
    /\ frames = <<>>
    /\ rendered = <<>>
    /\ response = <<>>

InitSlideIdle ==
    /\ slide = <<>>
    /\ pc = "idle"
    /\ idx = 0
    /\ canvas = <<>>
    /\ shade = <<>>
    /\ layers = <<>>
    /\ args = <<>>

\* renderer = SlideRenderer() (line 325), shared by every request
InitFont ==
    /\ files \in FileScenarios
    /\ InitFontIdle
    /\ InitSlideIdle
    /\ InitCarouselIdle

NextFont ==
    \E w \in Workers :
        \/ GetFontCall(w) /\ UNCHANGED slideVars /\ UNCHANGED carouselVars
        \/ GetFontLoad(w) /\ UNCHANGED slideVars /\ UNCHANGED carouselVars
        \/ GetFontStore(w) /\ UNCHANGED slideVars /\ UNCHANGED carouselVars
        \/ GetFontCheck(w) /\ UNCHANGED slideVars /\ UNCHANGED carouselVars
        \/ GetFontReturn(w) /\ UNCHANGED slideVars /\ UNCHANGED carouselVars

SpecFont == InitFont /\ [][NextFont]_vars

\* ---------------------------------------------------------------------
\* render_slide (lines 313-322) on bounded families of slides
\* ---------------------------------------------------------------------
MaxLen == 5
MaxWidthBound == 5
MaxImgDim == 4
MaxZoomQ == 6
MaxOverlay == 30
MaxBoxDim == 9

Chars == {"a", "*", " ", "\n"}
Contents == UNION {[1..n -> Chars] : n \in 0..MaxLen}
MaxWidths == {Absent, Frac(1, 2)} \cup {Num(n) : n \in 0..MaxWidthBound}
Positions == {25 * k : k \in (0 - 1)..5}
Zooms == {Absent} \cup {Frac(q, 4) : q \in 0..MaxZoomQ}
Overlays == {Num(n) : n \in (0 - 2)..MaxOverlay} \cup {Num(100), Num(200)}

DefaultBackground ==
    [color |-> Absent, type |-> "color", photo |-> Absent, photoPosition |-> Absent,
     photoZoom |-> Absent, overlay |-> Absent, overlayType |-> "none"]

TextElement(content, maxWidth) ==
    [type |-> "text", content |-> content, x |-> Num(40), y |-> Num(60),
     fontFamily |-> "Inter", fontSize |-> Absent, fontWeight |-> "400",
     color |-> Absent, highlightColor |-> Absent, opacity |-> Absent,
     lineHeight |-> Absent, maxWidth |-> maxWidth, align |-> "left"]

PhotoElement(photo, w, h) ==
    [type |-> "photo", photo |-> photo, x |-> Num(10), y |-> Num(20),
     width |-> w, height |-> h, borderRadius |-> Absent]

DefaultArgs ==
    [slide_num |-> 1, total_slides |-> 1, username_override |-> <<>>,
     username |-> <<"@", "a">>]

\* render_slide entered with slide s and arguments a
Entered(s, a) ==
    /\ slide = s
    /\ args = a
    /\ pc = "start"
    /\ idx = 0
    /\ canvas = <<>>
    /\ shade = <<>>
    /\ layers = <<>>
    /\ files = [present |-> {DejaVuBold, DejaVu}, corrupt |-> {}]
    /\ InitFontIdle
    /\ InitCarouselIdle

InitText ==
    \E content \in Contents, maxWidth \in MaxWidths :
        Entered([background |-> DefaultBackground,
                 elements |-> <<TextElement(content, maxWidth)>>], DefaultArgs)

NextText == CreateBackground \/ DrawTextElement \/ ReturnCanvas

SpecText == InitText /\ [][NextText]_vars

\* line spacings: the defaults 48 and 1.2, and fontSize 10 with lineHeight 1.5
LineSpacings == {<<Absent, Absent>>, <<Num(10), Frac(3, 2)>>}

InitLines ==
    \E content \in Contents, maxWidth \in {Absent, Num(3)}, spacing \in LineSpacings :
        Entered([background |-> DefaultBackground,
                 elements |-> <<[TextElement(content, maxWidth) EXCEPT
                                    !.fontSize = spacing[1], !.lineHeight = spacing[2]]>>],
                DefaultArgs)

SpecLines == InitLines /\ [][NextText]_vars

InitBackground ==
    \E iw \in 1..MaxImgDim, ih \in 1..MaxImgDim, zoom \in Zooms,
       px \in Positions, py \in Positions :
        Entered([background |->
                    [DefaultBackground EXCEPT !.type = "photo", !.photo = Image(iw, ih),
                                              !.photoZoom = zoom,
                                              !.photoPosition = Dict(Num(px), Num(py))],
                 elements |-> <<>>], DefaultArgs)

NextBackground == CreateBackground \/ ReturnCanvas

SpecBackground == InitBackground /\ [][NextBackground]_vars

InitOverlay ==
    \E overlay \in Overlays, overlayType \in {"gradient", "full"} :
        Entered([background |->
                    [DefaultBackground EXCEPT !.overlay = overlay,
                                              !.overlayType = overlayType],
                 elements |-> <<>>], DefaultArgs)

SpecOverlay == InitOverlay /\ [][NextBackground]_vars

InitPhoto ==
    \E iw \in 1..MaxBoxDim, ih \in 1..MaxBoxDim, w \in 1..MaxBoxDim, h \in 1..MaxBoxDim :
        Entered([background |-> DefaultBackground,
                 elements |-> <<PhotoElement(Image(iw, ih), Num(w), Num(h))>>], DefaultArgs)

NextPhoto == CreateBackground \/ DrawPhotoElement \/ ReturnCanvas

SpecPhoto == InitPhoto /\ [][NextPhoto]_vars

BaseSlide ==
    [background |->
        [color |-> Hex(17, 34, 51), type |-> "photo", photo |-> Image(4, 3),
         photoPosition |-> Dict(Num(50), Num(50)), photoZoom |-> Num(1),
         overlay |-> Num(20), overlayType |-> "full"],
     elements |->
        << [PhotoElement(Image(4, 3), Num(300), Num(300)) EXCEPT !.borderRadius = Num(10)],
           [TextElement(<<"a", " ", "*", "a", "*">>, Num(5)) EXCEPT
               !.fontSize = Num(48), !.opacity = Num(80), !.lineHeight = Frac(12, 10),
               !.color = Hex(0, 0, 0), !.highlightColor = Hex(200, 255, 0)] >>]

Malformed == {Absent, Null, Str, Num(0)}

\* BaseSlide with one field absent, null, a non-numeric string or zero
SlideInputs ==
    {BaseSlide}
    \cup {[BaseSlide EXCEPT !.background.color = v] : v \in Malformed}
    \cup {[BaseSlide EXCEPT !.background.overlay = v] : v \in Malformed}
    \cup {[BaseSlide EXCEPT !.background.photoZoom = v] : v \in Malformed}
    \cup {[BaseSlide EXCEPT !.background.photoPosition = v] : v \in Malformed}
    \cup {[BaseSlide EXCEPT !.background.photoPosition = Dict(v, Num(50))] : v \in Malformed}
    \cup {[BaseSlide EXCEPT !.background.photoPosition = Dict(Num(50), v)] : v \in Malformed}
    \cup {[BaseSlide EXCEPT !.elements[1].x = v] : v \in Malformed}
    \cup {[BaseSlide EXCEPT !.elements[1].y = v] : v \in Malformed}
    \cup {[BaseSlide EXCEPT !.elements[1].width = v] : v \in Malformed}
    \cup {[BaseSlide EXCEPT !.elements[1].height = v] : v \in Malformed}
    \cup {[BaseSlide EXCEPT !.elements[1].borderRadius = v] : v \in Malformed}
    \cup {[BaseSlide EXCEPT !.elements[2].x = v] : v \in Malformed}
    \cup {[BaseSlide EXCEPT !.elements[2].y = v] : v \in Malformed}
    \cup {[BaseSlide EXCEPT !.elements[2].fontSize = v] : v \in Malformed}
    \cup {[BaseSlide EXCEPT !.elements[2].opacity = v] : v \in Malformed}
    \cup {[BaseSlide EXCEPT !.elements[2].lineHeight = v] : v \in Malformed}
    \cup {[BaseSlide EXCEPT !.elements[2].maxWidth = v] : v \in Malformed}
    \cup {[BaseSlide EXCEPT !.elements[2].color = v] : v \in Malformed}
    \cup {[BaseSlide EXCEPT !.elements[2].highlightColor = v] : v \in Malformed}

InitSlide == \E s \in SlideInputs : Entered(s, DefaultArgs)

NextSlide == CreateBackground \/ DrawPhotoElement \/ DrawTextElement \/ ReturnCanvas

SpecSlide == InitSlide /\ [][NextSlide]_vars

\* ---------------------------------------------------------------------
\* generate_carousel (lines 429-598)
\* ---------------------------------------------------------------------
\* str.upper() on the letters the keys are made of
UpperChar(c) ==
    CASE c = "t" -> "T" [] c = "c" -> "C" [] c = "o" -> "O"
      [] c = "l" -> "L" [] c = "r" -> "R" [] OTHER -> c

Upper(key) == [i \in 1..Len(key) |-> UpperChar(key[i])]

ColorSuffix == <<"_", "C", "O", "L", "O", "R">>
PhotoKey == <<"P", "H", "O", "T", "O">>

\* 'PHOTO' in slide_vars
RECURSIVE HasKey(_, _)
HasKey(slide_vars, key) ==
    slide_vars # <<>> /\ (Head(slide_vars)[1] = key \/ HasKey(Tail(slide_vars), key))

\* slide_vars['PHOTO']
RECURSIVE ValueOf(_, _)
ValueOf(slide_vars, key) ==
    IF Head(slide_vars)[1] = key THEN Head(slide_vars)[2] ELSE ValueOf(Tail(slide_vars), key)

\* lines 498-506: the loop over slide_vars.items(); found.value and
\* found.color_value are <<>> for None, else hold the value
RECURSIVE FindVars(_, _, _)
FindVars(items, var_name, found) ==
    IF items = <<>> THEN found
    ELSE FindVars(Tail(items), var_name,
                  IF Upper(Head(items)[1]) = Upper(var_name)
                  THEN [found EXCEPT !.value = <<Head(items)[2]>>]
                  ELSE IF Upper(Head(items)[1]) = Upper(var_name) \o ColorSuffix
                  THEN [found EXCEPT !.color_value = <<Head(items)[2]>>]
                  ELSE found)

\* lines 508-516: apply what the loop found to the element
Assigned(el, found) ==
    [(IF found.value = <<>> THEN el
      ELSE IF el.type = "photo" THEN [el EXCEPT !.photo = found.value[1]]
      ELSE [el EXCEPT !.content = found.value[1]])
     EXCEPT !.highlightColor =
        IF found.color_value # <<>> /\ Truthy(found.color_value[1])
        THEN found.color_value[1] ELSE @]

\* lines 492-516: one element of the copied slide
SubstitutedElement(el, slide_vars) ==
    IF el.varName = <<>> THEN el
    ELSE Assigned(el, FindVars(slide_vars, el.varName, [value |-> <<>>, color_value |-> <<>>]))

\* lines 484-516: the copy of base_slide with the slide's variables applied
Substituted(base, slide_vars) ==
    [type |-> base.type,
     background |->
        IF HasKey(slide_vars, PhotoKey) /\ base.background.type = "photo"
        THEN [base.background EXCEPT !.photo = ValueOf(slide_vars, PhotoKey)]
        ELSE base.background,
     elements |-> [e \in 1..Len(base.elements) |->
                      SubstitutedElement(base.elements[e], slide_vars)]]

\* [s for s in slides if s.get('type') == t]
OfType(slides, t) == SelectSeq(slides, LAMBDA s : s.type = t)

intro_slides(slides) == OfType(slides, "intro")
ending_slides(slides) == OfType(slides, "ending")

\* lines 465 and 468-469: content_slides, all but the ending slides when none
content_slides(slides) ==
    IF OfType(slides, "content") # <<>> THEN OfType(slides, "content")
    ELSE SelectSeq(slides, LAMBDA s : s.type # "ending")

\* lines 474-480 for the i-th request slide (from 0) of n: <<base_slide>>, or
\* <<>> where content_slides[0] raises IndexError
base_slide(slides, i, n) ==
    IF i = 0 /\ intro_slides(slides) # <<>>
    THEN <<intro_slides(slides)[1]>>
    ELSE IF ending_slides(slides) # <<>> /\ i >= n - Len(ending_slides(slides))
            /\ i - (n - Len(ending_slides(slides))) < Len(ending_slides(slides))
    THEN <<ending_slides(slides)[i - (n - Len(ending_slides(slides))) + 1]>>
    ELSE IF content_slides(slides) = <<>> THEN <<>>
    ELSE <<content_slides(slides)[1]>>

\* the for loop of lines 473-518 raises
SelectionRaises(slides, request_slides) ==
    \E i \in 0..(Len(request_slides) - 1) : base_slide(slides, i, Len(request_slides)) = <<>>

\* lines 463-522: result_slides
ResultSlides(slides, request_slides) ==
    IF request_slides # <<>>
    THEN [k \in 1..Len(request_slides) |->
             Substituted(base_slide(slides, k - 1, Len(request_slides))[1], request_slides[k])]
    ELSE slides

\* lines 471 and 522: total_slides
TotalSlides(slides, request_slides) ==
    IF request_slides # <<>>
    THEN Len(request_slides) + Len(intro_slides(slides)) + Len(ending_slides(slides))
    ELSE Len(slides)

\* lines 442-443
TemplateName(req) == IF req.template_id # "" THEN req.template_id ELSE req.template_name
Username(req) ==
    IF req.username # <<>> THEN req.username
    ELSE IF req.USERNAME # <<>> THEN req.USERNAME
    ELSE <<"@", "u">>

\* lines 439-522: up to the first call of render_slide
SelectSlides ==
    /\ gpc = "start"
    /\ IF TemplateName(request) = ""
       THEN /\ gpc' = "raised"
            /\ response' = [status |-> 400]
            /\ UNCHANGED <<result_slides, total_slides>>
       ELSE IF ~template.exists
       THEN /\ gpc' = "raised"
            /\ response' = [status |-> 404]
            /\ UNCHANGED <<result_slides, total_slides>>
       ELSE IF SelectionRaises(template.slides, request.slides)
       THEN /\ gpc' = "raised"
            /\ response' = [status |-> 500]
            /\ UNCHANGED <<result_slides, total_slides>>
       ELSE /\ gpc' = "render"
            /\ result_slides' = ResultSlides(template.slides, request.slides)
            /\ total_slides' = TotalSlides(template.slides, request.slides)
            /\ UNCHANGED response
    /\ UNCHANGED <<request, template, gidx, frames, rendered>>
    /\ UNCHANGED slideVars
    /\ UNCHANGED fontVars

\* line 529: renderer.render_slide(slide, settings, i + 1, total_slides, username)
CallRenderSlide ==
    /\ gpc = "render"
    /\ gidx < Len(result_slides)
    /\ pc = "idle"
    /\ slide' = result_slides[gidx + 1]
    /\ args' = [slide_num |-> gidx + 1, total_slides |-> total_slides,
                username_override |-> Username(request),
                username |-> template.settings.username]
    /\ pc' = "start"
    /\ idx' = 0
    /\ canvas' = <<>>
    /\ shade' = <<>>
    /\ layers' = <<>>
    /\ UNCHANGED carouselVars
    /\ UNCHANGED fontVars

\* lines 531-555: keep the image of slide i; an exception of render_slide
\* leaves the handler
KeepImage ==
    /\ gpc = "render"
    /\ pc \in {"done", "raised"}
    /\ IF pc = "raised"
       THEN /\ gpc' = "raised"
            /\ response' = [status |-> 500]
            /\ UNCHANGED <<frames, rendered, gidx>>
       ELSE /\ IF request.return_format = "video"
               THEN /\ frames' = Append(frames, [index |-> gidx, img |-> layers])
                    /\ UNCHANGED rendered
               ELSE /\ rendered' = Append(rendered, [slide_number |-> gidx + 1, img |-> layers])
                    /\ UNCHANGED frames
            /\ gidx' = gidx + 1
            /\ UNCHANGED <<gpc, response>>
    /\ pc' = "idle"
    /\ UNCHANGED <<request, template, result_slides, total_slides>>
    /\ UNCHANGED <<slide, idx, canvas, shade, layers, args>>
    /\ UNCHANGED fontVars

\* lines 557-598: encode the frames with ffmpeg, or return the list
Respond ==
    /\ gpc = "render"
    /\ gidx = Len(result_slides)
    /\ pc = "idle"
    /\ IF request.return_format = "video" /\ frames # <<>>
       THEN \E ffmpeg \in BOOLEAN :
               IF ffmpeg
               THEN /\ gpc' = "returned"
                    /\ response' = [success |-> TRUE, slides_count |-> total_slides]
               ELSE /\ gpc' = "raised"
                    /\ response' = [status |-> 500]
       ELSE /\ gpc' = "returned"
            /\ response' = [success |-> TRUE, slides |-> rendered]
    /\ UNCHANGED <<request, template, result_slides, total_slides, gidx, frames, rendered>>
    /\ UNCHANGED slideVars
    /\ UNCHANGED fontVars

MaxTemplate == 3
MaxRequest == 3

SlideTypes == {"intro", "content", "ending"}

\* a template slide: a photo background still without photo, the counter
\* and a text bound to the variable t
TemplateSlide(type) ==
    [type |-> type,
     background |-> [DefaultBackground EXCEPT !.type = "photo"],
     elements |->
        << [type |-> "slidenum", content |-> <<>>, varName |-> <<>>,
            x |-> Num(1000), y |-> Num(1300),
            fontFamily |-> "Inter", fontSize |-> Absent, fontWeight |-> "400",
            color |-> Absent, highlightColor |-> Absent, opacity |-> Absent,
            lineHeight |-> Absent, maxWidth |-> Absent, align |-> "right"],
           [type |-> "text", content |-> <<"a">>, varName |-> <<"t">>,
            x |-> Num(40), y |-> Num(60),
            fontFamily |-> "Inter", fontSize |-> Absent, fontWeight |-> "400",
            color |-> Absent, highlightColor |-> Absent, opacity |-> Absent,
            lineHeight |-> Absent, maxWidth |-> Absent, align |-> "left"] >>]

RECURSIVE SeqsUpTo(_, _)
SeqsUpTo(S, n) ==
    IF n = 0 THEN {<<>>}
    ELSE SeqsUpTo(S, n - 1) \cup {Append(q, x) : q \in {r \in SeqsUpTo(S, n - 1) : Len(r) = n - 1}, x \in S}

NoTemplate == [exists |-> FALSE, settings |-> <<>>, slides |-> <<>>]

Templates ==
    {[exists |-> TRUE, settings |-> [username |-> <<"@", "s">>],
      slides |-> [k \in 1..Len(types) |-> TemplateSlide(types[k])]] :
        types \in SeqsUpTo(SlideTypes, MaxTemplate)}

\* the variables of one request slide, as (key, value) pairs in dict order
SlideVarsInputs ==
    { <<>>,
      << <<<<"T">>, <<"a", " ", "a">>>>, <<<<"t", "_", "c", "o", "l", "o", "r">>, Hex(255, 0, 0)>> >>,
      << <<PhotoKey, Image(4, 3)>> >> }

Request(n, slide_vars, return_format) ==
    [template_id |-> "", template_name |-> "t", username |-> <<>>, USERNAME |-> <<"@", "a">>,
     slides |-> [k \in 1..n |-> slide_vars], return_format |-> return_format]

Requests ==
    {Request(n, v, f) : n \in 0..MaxRequest, v \in SlideVarsInputs, f \in {"video", "base64"}}
    \cup {[Request(0, <<>>, "video") EXCEPT !.template_name = ""]}

InitCarousel ==
    /\ request \in Requests
    /\ template \in Templates \cup {NoTemplate}
    /\ (template = NoTemplate \/ request.template_name = "") => request.slides = <<>>
    /\ gpc = "start"
    /\ result_slides = <<>>
    /\ total_slides = 0
    /\ gidx = 0
    /\ frames = <<>>
    /\ rendered = <<>>
    /\ response = <<>>
    /\ InitSlideIdle
    /\ files = [present |-> {DejaVuBold, DejaVu}, corrupt |-> {}]
    /\ InitFontIdle

NextCarousel ==
    \/ SelectSlides
    \/ CallRenderSlide
    \/ CreateBackground
    \/ DrawTextElement
    \/ ReturnCanvas
    \/ KeepImage
    \/ Respond

SpecCarousel == InitCarousel /\ [][NextCarousel]_vars

\* ---------------------------------------------------------------------
\* Properties
\* ---------------------------------------------------------------------
TextLayerAt(i) == i \in 1..Len(layers) /\ layers[i].kind = "text"
PhotoLayerAt(i) == i \in 1..Len(layers) /\ layers[i].kind = "photo"

\* the runs of a line that are words, in order
RECURSIVE LineWords(_)
LineWords(line_segs) ==
    IF line_segs = <<>> THEN <<>>
    ELSE IF Head(line_segs).text = <<" ">> THEN LineWords(Tail(line_segs))
    ELSE <<Head(line_segs)>> \o LineWords(Tail(line_segs))

RunTexts(runs) == [i \in 1..Len(runs) |-> runs[i].text]

\* measured width of a line's words joined by single spaces
JoinedWidth(line_segs) == TextWidth(Join(RunTexts(LineWords(line_segs))))

HasNewline(content) == \E i \in 1..Len(content) : content[i] = "\n"

\* C1 as stated: for every maxWidth given, a line of two or more words is at
\* most maxWidth wide
WrapWithinEveryMaxWidth ==
    \A i \in 1..Len(layers) :
        (TextLayerAt(i) /\ slide.elements[i].maxWidth.k = "num") =>
            \A l \in 1..Len(layers[i].lines) :
                Len(LineWords(layers[i].lines[l])) >= 2 =>
                    JoinedWidth(layers[i].lines[l]) * slide.elements[i].maxWidth.d
                        <= slide.elements[i].maxWidth.n

\* C1 amended: when int(maxWidth) is not zero, every line of two or more
\* words is at most int(maxWidth) wide; only a one-word line may be wider
WrapWithinMaxWidth ==
    \A i \in 1..Len(layers) :
        (TextLayerAt(i) /\ layers[i].max_width.k = "num" /\ layers[i].max_width.n # 0) =>
            \A l \in 1..Len(layers[i].lines) :
                Len(LineWords(layers[i].lines[l])) >= 2 =>
                    JoinedWidth(layers[i].lines[l]) <= layers[i].max_width.n

\* a wrap happened on a width limit and a line of two words fits the limit
WrapWitness ==
    /\ pc = "done"
    /\ TextLayerAt(1)
    /\ layers[1].max_width.k = "num" /\ layers[1].max_width.n > 0
    /\ ~HasNewline(layers[1].content)
    /\ Len(layers[1].lines) >= 2
    /\ Len(LineWords(layers[1].lines[1])) >= 2
    /\ JoinedWidth(layers[1].lines[1]) = layers[1].max_width.n

\* C2: render_slide returns a canvas for every slide description, it never
\* raises
RenderNeverRaises == pc # "raised"

\* a non-numeric overlay stopped create_background before any canvas existed
RaiseWitness ==
    /\ pc = "raised"
    /\ slide.background.overlay = Str
    /\ canvas = <<>>
    /\ layers = <<>>

Covers(new_width, new_height, crop, tw, th) ==
    /\ new_width >= tw
    /\ new_height >= th
    /\ crop[3] - crop[1] = tw
    /\ crop[4] - crop[2] = th

\* C3: the resized image covers the target in both axes and the crop
\* rectangle has exactly the target's size, for the canvas and for a photo box
CoverFitCovers ==
    /\ (pc \in {"elements", "done"} /\ canvas.fitted) =>
          Covers(canvas.new_width, canvas.new_height, canvas.crop, CANVAS_W, CANVAS_H)
    /\ \A i \in 1..Len(layers) :
          PhotoLayerAt(i) =>
              Covers(layers[i].new_w, layers[i].new_h, layers[i].crop,
                     layers[i].w, layers[i].h)

\* a 9 x 7 image in a 9 x 7 box resized to 9 x 6
ShortPhotoWitness ==
    /\ pc = "done"
    /\ PhotoLayerAt(1)
    /\ slide.elements[1].photo = Image(9, 7)
    /\ layers[1].w = 9 /\ layers[1].h = 7
    /\ layers[1].new_w = 9 /\ layers[1].new_h = 6
    /\ layers[1].crop = <<0, 0 - 1, 9, 6>>

GradientDone == pc \in {"elements", "done"} /\ shade.kind = "gradient"
Strength == slide.background.overlay.n
RowAtFortyPercent == (2 * CANVAS_H) \div 5

GradientRises ==
    /\ shade.rows[RowAtFortyPercent] = 0
    /\ \A y \in 0..RowAtFortyPercent : shade.rows[y] = 0
    /\ \A y \in 1..(CANVAS_H - 1) : shade.rows[y - 1] <= shade.rows[y]

\* C4 as stated: alpha is 0 at row 0.4*H, the configured maximum at row H-1,
\* non-decreasing in between, and no overlay above row 0.4*H
GradientReachesMaximum ==
    GradientDone =>
        /\ GradientRises
        /\ shade.rows[CANVAS_H - 1] = FullAlpha(Strength)

\* C4 amended: alpha is 0 up to row 0.4*H and non-decreasing after it; at
\* row H-1 it is at most the configured maximum int(255*s/100) and, for
\* s <= 100, at least that maximum minus one
GradientBelowMaximum ==
    GradientDone =>
        /\ GradientRises
        /\ shade.rows[CANVAS_H - 1] <= FullAlpha(Strength)
        /\ Strength <= 100 => shade.rows[CANVAS_H - 1] >= FullAlpha(Strength) - 1

\* a gradient of strength 100 whose last row stays below 255
GradientWitness ==
    /\ pc = "done"
    /\ shade.kind = "gradient"
    /\ Strength = 100
    /\ shade.rows[CANVAS_H - 1] = 254
    /\ shade.rows[RowAtFortyPercent + 1] = 0
    /\ shade.rows[RowAtFortyPercent + 4] = 1

\* C5: every alpha used for the full or the gradient overlay lies in 0..255
AlphaInByteRange ==
    pc \in {"elements", "done"} =>
        /\ shade.alpha \in 0..255
        /\ shade.kind = "gradient" => \A y \in 0..(CANVAS_H - 1) : shade.rows[y] \in 0..255

\* a full overlay of strength 200 composited with alpha 510
AlphaAboveByteWitness ==
    /\ pc = "done"
    /\ slide.background.overlay = Num(200)
    /\ shade.kind = "full"
    /\ shade.alpha = 510

\* C6: get_font returns, for its arguments, the font a renderer with an
\* empty cache returns for them, whatever was called before
FontDependsOnArgumentsOnly ==
    \A w \in Workers :
        tpc[w] = "done" =>
            tret[w] = FreshFont(files, targ[w].family, targ[w].size, targ[w].weight)

\* Roboto at weight 400 served the bold fallback cached for weight 700
FontPoisonWitness ==
    /\ files.present = {DejaVuBold, DejaVu}
    /\ tpc["w1"] = "done" /\ tpc["w2"] = "done"
    /\ targ["w1"] = [family |-> "Roboto", size |-> FontSize, weight |-> "700"]
    /\ targ["w2"] = [family |-> "Roboto", size |-> FontSize, weight |-> "400"]
    /\ tfont["w2"] = NoFont
    /\ tret["w2"].path = DejaVuBold
    /\ FreshFont(files, "Roboto", FontSize, "400").path = DejaVu

MaxOffset(resized, target) == IF resized - target > 0 THEN resized - target ELSE 0

AxisOffset(offset, resized, target, pos) ==
    /\ offset = CropOffset(resized, target, pos)
    /\ pos = 0 => offset = 0
    /\ pos = 100 => offset = MaxOffset(resized, target)
    /\ pos = 50 => offset = MaxOffset(resized, target) \div 2
    /\ \A p \in Positions :
          (p + 25) \in Positions =>
              CropOffset(resized, target, p) <= CropOffset(resized, target, p + 25)
    /\ pos \in 0..100 => (offset >= 0 /\ offset + target <= resized)

\* C7: the crop offset is 0 at position 0, the maximum offset at 100, half
\* of it rounded down at 50, non-decreasing in the position, and for a
\* position in [0,100] the crop window lies inside the resized image
CropOffsetFollowsPosition ==
    (pc \in {"elements", "done"} /\ canvas.fitted) =>
        /\ AxisOffset(canvas.crop[1], canvas.new_width, CANVAS_W,
                      slide.background.photoPosition.x.n)
        /\ AxisOffset(canvas.crop[2], canvas.new_height, CANVAS_H,
                      slide.background.photoPosition.y.n)
        /\ canvas.crop[3] = canvas.crop[1] + CANVAS_W
        /\ canvas.crop[4] = canvas.crop[2] + CANVAS_H

\* a zoomed photo panned to the centre horizontally and the bottom vertically
CropWitness ==
    /\ pc = "done"
    /\ canvas.fitted
    /\ slide.background.photoPosition.x.n = 50
    /\ slide.background.photoPosition.y.n = 100
    /\ canvas.crop[1] > 0
    /\ canvas.crop[2] = canvas.new_height - CANVAS_H
    /\ canvas.crop[2] > 0

\* the segments written back with their markers
RECURSIVE Marked(_)
Marked(segments) ==
    IF segments = <<>> THEN <<>>
    ELSE (IF Head(segments).hl THEN <<"*">> \o Head(segments).text \o <<"*">>
          ELSE Head(segments).text) \o Marked(Tail(segments))

\* content holds a pair *x* with x non-empty and free of asterisks
HasPair(content) ==
    \E i \in 1..Len(content), j \in 1..Len(content) :
        /\ j > i + 1
        /\ content[i] = "*" /\ content[j] = "*"
        /\ \A m \in (i + 1)..(j - 1) : content[m] # "*"

\* C8: a highlighted segment is a paired *x* of the content with x non-empty
\* and free of asterisks, every other asterisk stays in a plain segment, and
\* a content without a complete pair is one plain segment equal to the input
HighlightSegmentation ==
    \A i \in 1..Len(layers) :
        TextLayerAt(i) =>
            /\ Marked(layers[i].segments) = layers[i].content
            /\ \A k \in 1..Len(layers[i].segments) :
                  layers[i].segments[k].hl =>
                      /\ layers[i].segments[k].text # <<>>
                      /\ \A m \in 1..Len(layers[i].segments[k].text) :
                            layers[i].segments[k].text[m] # "*"
            /\ ~HasPair(layers[i].content) =>
                  layers[i].segments = <<Plain(layers[i].content)>>

\* a pair followed by an asterisk that stays literal
SegmentationWitness ==
    /\ pc = "done"
    /\ TextLayerAt(1)
    /\ layers[1].content = <<"*", "a", "*", "*">>
    /\ layers[1].segments = <<Hl(<<"a">>), Plain(<<"*">>)>>

ReturnsLoadedFont ==
    \A w \in Workers :
        tpc[w] = "done" =>
            /\ tkey[w] = FontKey(targ[w].family, targ[w].size, targ[w].weight)
            /\ tkey[w] \in DOMAIN loaded
            /\ tret[w] \in loaded[tkey[w]]

CacheHoldsLoadedFonts ==
    \A k \in DOMAIN font_cache : k \in DOMAIN loaded /\ font_cache[k] \in loaded[k]

KeysStay ==
    \A k \in DOMAIN font_cache : k \in DOMAIN font_cache'

\* C9: under any interleaving every get_font call returns a font loaded for
\* its own key, the cache only holds fonts loaded for their key, and a key
\* once in the cache stays in it
FontCacheSafe ==
    [](ReturnsLoadedFont /\ CacheHoldsLoadedFonts) /\ [][KeysStay]_vars

\* both workers missed the cache for the same key and each loaded a font
FontRaceWitness ==
    /\ tpc["w1"] = "done" /\ tpc["w2"] = "done"
    /\ tkey["w1"] = tkey["w2"]
    /\ tfont["w1"] # NoFont /\ tfont["w2"] # NoFont
    /\ tfont["w1"] # tfont["w2"]
    /\ tret["w1"] = tret["w2"]

\* the maximal runs of characters other than space and newline
RECURSIVE TokensFrom(_, _)
TokensFrom(text, word) ==
    IF text = <<>> THEN (IF word = <<>> THEN <<>> ELSE <<word>>)
    ELSE IF Head(text) \in {" ", "\n"}
    THEN (IF word = <<>> THEN <<>> ELSE <<word>>) \o TokensFrom(Tail(text), <<>>)
    ELSE TokensFrom(Tail(text), Append(word, Head(text)))

\* the word runs of all lines, in order
RECURSIVE EmittedWords(_)
EmittedWords(lines) ==
    IF lines = <<>> THEN <<>> ELSE LineWords(Head(lines)) \o EmittedWords(Tail(lines))

\* words and single plain spaces alternate on a line
LineAlternates(line_segs) ==
    \A k \in 1..Len(line_segs) :
        IF k % 2 = 0 THEN line_segs[k] = Plain(<<" ">>) /\ k < Len(line_segs)
        ELSE /\ line_segs[k].text # <<>>
             /\ \A m \in 1..Len(line_segs[k].text) : line_segs[k].text[m] \notin {" ", "\n"}

\* the tag of the word at each position holds a segment with that tag and word
TagFromSegment(word, segments) ==
    \E k \in 1..Len(segments) :
        /\ segments[k].hl = word.hl
        /\ \E i \in 1..Len(TokensFrom(segments[k].text, <<>>)) :
              TokensFrom(segments[k].text, <<>>)[i] = word.text

\* C10: the words of the content, delimited by spaces and newlines with the
\* highlight markers removed, appear once each and in order on the emitted
\* lines, tagged as their segment is, consecutive words of a line one plain
\* space apart
WrapKeepsContentWords ==
    \A i \in 1..Len(layers) :
        TextLayerAt(i) =>
            /\ RunTexts(EmittedWords(layers[i].lines))
                  = TokensFrom(LineText(layers[i].segments), <<>>)
            /\ \A k \in 1..Len(EmittedWords(layers[i].lines)) :
                  TagFromSegment(EmittedWords(layers[i].lines)[k], layers[i].segments)
            /\ \A l \in 1..Len(layers[i].lines) : LineAlternates(layers[i].lines[l])

\* the content aa*a*, one word once the markers are removed, emitted as
\* two words with a space between them
SplitWordWitness ==
    /\ pc = "done"
    /\ TextLayerAt(1)
    /\ layers[1].content = <<"a", "a", "*", "a", "*">>
    /\ TokensFrom(LineText(layers[1].segments), <<>>) = << <<"a", "a", "a">> >>
    /\ layers[1].lines = << <<Plain(<<"a", "a">>), Plain(<<" ">>), Hl(<<"a">>)>> >>

\* the texts of the segments in order, a bar between two segments
RECURSIVE Barred(_)
Barred(segments) ==
    IF segments = <<>> THEN <<>>
    ELSE IF Len(segments) = 1 THEN Head(segments).text
    ELSE Head(segments).text \o <<"|">> \o Barred(Tail(segments))

\* for each word of text after the first, the number of newlines between it
\* and the word before it; nl counts the newlines since the last word
RECURSIVE NewlineGaps(_, _, _, _)
NewlineGaps(text, inword, seen, nl) ==
    IF text = <<>> THEN <<>>
    ELSE IF Head(text) \in {" ", "\n", "|"}
    THEN NewlineGaps(Tail(text), FALSE, seen,
                     IF Head(text) = "\n" /\ seen THEN nl + 1 ELSE nl)
    ELSE IF inword THEN NewlineGaps(Tail(text), TRUE, TRUE, 0)
    ELSE (IF seen THEN <<nl>> ELSE <<>>) \o NewlineGaps(Tail(text), TRUE, TRUE, 0)

\* for each word on the lines, in order, the number of its line, from k
RECURSIVE WordLineNumbers(_, _)
WordLineNumbers(lines, k) ==
    IF lines = <<>> THEN <<>>
    ELSE [i \in 1..Len(LineWords(Head(lines))) |-> k] \o WordLineNumbers(Tail(lines), k + 1)

\* int(font_size * line_height) of the element
LineStep(el) ==
    FTrunc(FMul(FromInt(PyInt(Get(el.fontSize, Num(48)))),
                FloatOf(Get(el.lineHeight, Frac(12, 10)))))

\* C11: two words with n >= 1 newlines between them lie n lines apart, the
\* n - 1 lines between them being empty, and line k (from 0, empty lines
\* counted) is painted at y + k * int(fontSize * lineHeight)
NewlinesBreakLines ==
    \A i \in 1..Len(layers) :
        TextLayerAt(i) =>
            LET gaps == NewlineGaps(Barred(layers[i].segments), FALSE, FALSE, 0)
                at == WordLineNumbers(layers[i].lines, 0)
                y == PyInt(Get(slide.elements[i].y, Num(0)))
                step == LineStep(slide.elements[i])
            IN /\ Len(gaps) = IF at = <<>> THEN 0 ELSE Len(at) - 1
               /\ \A w \in 2..Len(at) :
                     gaps[w - 1] >= 1 => at[w] = at[w - 1] + gaps[w - 1]
               /\ \A l \in 1..Len(layers[i].lines) :
                     LineWords(layers[i].lines[l]) = <<>> => layers[i].lines[l] = <<>>
               /\ Len(layers[i].painted) = Len(layers[i].lines)
               /\ \A l \in 1..Len(layers[i].lines) :
                     /\ Len(layers[i].painted[l]) = Len(layers[i].lines[l])
                     /\ \A r \in 1..Len(layers[i].painted[l]) :
                           layers[i].painted[l][r].y = y + (l - 1) * step

\* two words two newlines apart: an empty line between them, the second word
\* painted two steps of int(48 * 1.2) = 57 below the first
NewlineWitness ==
    /\ pc = "done"
    /\ TextLayerAt(1)
    /\ layers[1].content = <<"a", "\n", "\n", "a">>
    /\ layers[1].lines = << <<Plain(<<"a">>)>>, <<>>, <<Plain(<<"a">>)>> >>
    /\ layers[1].painted[1][1].y = 60
    /\ layers[1].painted[3][1].y = 174

\* the same content at fontSize 10 and lineHeight 1.5: steps of 15
NarrowLinesReached ==
    /\ pc = "done"
    /\ TextLayerAt(1)
    /\ layers[1].content = <<"a", "\n", "\n", "a">>
    /\ layers[1].painted[3][1].y = 90

\* the images kept so far, whichever the return format
Images == IF request.return_format = "video" THEN frames ELSE rendered

\* the content painted for the counter element of a kept image
CounterOf(img) == img[1].content

\* C12: the total handed to render_slide is the number of slides rendered:
\* once every slide is rendered, total_slides is their number, and the
\* counter of the last one reads N/N
TotalIsRenderedCount ==
    (gpc = "render" /\ gidx = Len(result_slides) /\ pc = "idle") =>
        /\ total_slides = Len(Images)
        /\ \A k \in 1..Len(Images) :
              /\ k <= total_slides
              /\ CounterOf(Images[k].img) = DigitsOf(k) \o <<"/">> \o DigitsOf(total_slides)
        /\ Images # <<>> =>
              CounterOf(Images[Len(Images)].img)
                  = DigitsOf(Len(Images)) \o <<"/">> \o DigitsOf(Len(Images))

\* a template of an intro, a content and an ending slide and a request of
\* three slides: three slides rendered, the last counter reads 3/5
TotalWitness ==
    /\ gpc = "returned"
    /\ request.return_format = "base64"
    /\ Len(request.slides) = 3
    /\ Len(template.slides) = 3
    /\ template.slides[1].type = "intro"
    /\ template.slides[2].type = "content"
    /\ template.slides[3].type = "ending"
    /\ Len(response.slides) = 3
    /\ total_slides = 5
    /\ CounterOf(response.slides[3].img) = <<"3", "/", "5">>

====
